---- MODULE Spec2Model ----
(***************************************************************************)
(* VideoSink (src/include/libvhal/video_sink.h): the background            *)
(* "vhal talker" thread (connect loop + poll/Recv/dispatch loop), the      *)
(* application threads calling SendDataPacket / SendRawPacket, and the     *)
(* owner thread calling RegisterCallback and the destructor, all sharing   *)
(* one IStreamSocketClient transport.                                      *)
(***************************************************************************)
EXTENDS Integers, Sequences, FiniteSets, TLC

(* ------------------------------ bounds --------------------------------- *)
\* Connect() fails at most this many times before it succeeds.
MaxFail == 2
\* Readiness events (poll() > 0) the peer causes in one run.
MaxEvents == 2
\* Send programs the application threads start in one run (all threads).
MaxCalls == 2
\* RegisterCallback calls the owner makes in one run.
MaxRegs == 2
\* the same four budgets when both sides run together
BothFail == 1
BothEvents == 1
BothCalls == 2
BothRegs == 1

(* ------------------------- program constants --------------------------- *)
\* sizeof(size_t) on the LP64 targets of the library: width of the header.
SizeT == 8
\* width of one enum / uint32_t field of CtrlMessage.
FieldBytes == 4
\* sizeof(VideoSink::CtrlMessage): version, cmd, codec_type, resolution,
\* reserved[4].
CtrlMsgSize == 32
\* enum values
kH264 == 0
kI420 == 1
k480p == 0
k720p == 1
k1080p == 2
kOpen == 11
kClose == 12
kNone == 13
kV1 == 0
kV2 == 1

(* ------------------------------ inputs --------------------------------- *)
Threads == {"app1", "app2"}
Handlers == {"h1", "h2"}
NoHandler == "nullptr"
\* packets the application sends (the bytes; size is their length)
Packets == {<<7>>, <<8, 9>>}
\* the transport's status messages on a failed call
TransportErrs == {"", "EPIPE"}

\* the four named fields of a control record as sent by the peer
CtrlFieldNames == <<"version", "cmd", "codec_type", "resolution">>
WireMsgs ==
  { [version |-> kV2, cmd |-> kOpen, codec_type |-> kH264, resolution |-> k720p],
    [version |-> kV1, cmd |-> kClose, codec_type |-> kI420, resolution |-> k1080p] }
\* what Recv() may return for a request of CtrlMsgSize bytes
RecvCounts == {-1, 0, CtrlMsgSize - 1, CtrlMsgSize}

VARIABLES
  env,               \* the inputs and budgets of the run (never changes)
  should_continue_,  \* atomic<bool> should_continue_
  callback_,         \* CameraCallback callback_
  connected,         \* transport: what Connected() returns
  need_reset,        \* transport: what NeedConnectionReset() returns
  failPlan,          \* transport: Connect() fails this many times, then succeeds
  pc_bg,             \* position of vhal_talker_thread_
  received,          \* background thread: Recv()'s count
  ctrl_msg,          \* background thread: the local CtrlMessage buffer
  stats,             \* counters of the background thread's transport calls
  delivered,         \* callback invocations, in order
  rx,                \* Recv() results (count, record the peer sent), in order
  fds,               \* background thread: fds[0].fd, the descriptor poll() waits on
  pc_owner,          \* position of the thread owning the Sink
  pending,           \* RegisterCallback's argument while it assigns
  registered,        \* handlers registered so far, in order
  pc,                \* position of each application thread
  job,               \* each application thread's send program and progress
  resp,              \* each application thread's local `response`
  issued,            \* transport calls each thread's program has made
  result,            \* IOResult last returned to each thread
  started            \* send programs started so far

vars == << env, should_continue_, callback_, connected, need_reset, failPlan,
           pc_bg, received, ctrl_msg, stats, delivered, rx, fds, pc_owner, pending,
           registered, pc, job, resp, issued, result, started >>

bgVars == << pc_bg, received, ctrl_msg, stats, delivered, rx, fds >>
ownerVars == << pc_owner, pending, registered >>
appVars == << pc, job, resp, issued, result, started >>
transportVars == << connected, need_reset >>

(* ----------------------------- helpers --------------------------------- *)
\* CtrlMessage ctrl_msg; -- the member initialisers of lines 102-104 and 70-71
DefaultCtrlMsg ==
  [version |-> kV2, cmd |-> kNone, codec_type |-> kH264, resolution |-> k480p]

\* Recv() copies the first n bytes the peer sent over the buffer: field i
\* (0-based, FieldBytes wide, little endian, every value below 256) holds the
\* peer's value as soon as its low byte has been copied.
RecvInto(buf, sent, n) ==
  [f \in DOMAIN buf |->
     LET i == CHOOSE k \in 1..Len(CtrlFieldNames) : CtrlFieldNames[k] = f
     IN IF n > (i - 1) * FieldBytes THEN sent[f] ELSE buf[f]]

\* (uint8_t*)&size, sizeof(size): the native little-endian bytes of a size_t
RECURSIVE SizeBytes(_, _)
SizeBytes(n, width) ==
  IF width = 0 THEN <<>> ELSE <<n % 256>> \o SizeBytes(n \div 256, width - 1)

\* the transport's possible results for Send(buf, len): failure, a partial
\* write, a full write; a failure carries one of the transport's messages
SendResults(len) ==
  LET counts == {len} \cup (IF env.partial /\ len > 0 THEN {len - 1} ELSE {})
  IN { [bytes |-> n, msg |-> ""] : n \in counts }
       \cup { [bytes |-> -1, msg |-> e] : e \in env.errs }

\* the send programs an application thread runs: one SendDataPacket, one
\* SendRawPacket, or the pair of SendRawPacket calls of the doc comment
\* (lines 152-158)
ProgramKinds == {"data", "raw", "pair"}
ProgramCalls(kind, packet) ==
  LET size == Len(packet) IN
  CASE kind = "data" ->
         << [op |-> "SendDataPacket", packet |-> packet, size |-> size] >>
    [] kind = "raw" ->
         << [op |-> "SendRawPacket", packet |-> packet, size |-> size] >>
    [] kind = "pair" ->
         << [op |-> "SendRawPacket", packet |-> SizeBytes(size, SizeT),
             size |-> SizeT],
            [op |-> "SendRawPacket", packet |-> packet, size |-> size] >>
    [] OTHER -> << >>

(* ------------------------------- Init ---------------------------------- *)
\* The state right after Impl's constructor has started the thread: flag set,
\* no callback (line 371), transport not yet connected, nothing sent.  With
\* `up` the thread has already connected at its first attempt and polls.
InitWith(e, up) ==
  /\ env = e
  /\ should_continue_ = TRUE
  /\ callback_ = NoHandler
  /\ connected = up
  /\ need_reset = FALSE
  /\ failPlan \in 0..e.maxFail
  /\ pc_bg = IF up THEN "poll" ELSE "loop"
  /\ received = 0
  /\ ctrl_msg = DefaultCtrlMsg
  /\ stats = [connects |-> IF up THEN 1 ELSE 0, fails |-> 0,
              oks |-> IF up THEN 1 ELSE 0, sleeps |-> 0,
              resets |-> 0, events |-> 0, lateTimeouts |-> 0,
              lateConnects |-> 0, lateSleeps |-> 0, pollins |-> 0,
              staleTick |-> 0]
  /\ delivered = <<>>
  /\ rx = <<>>
  /\ fds = IF up THEN 1 ELSE 0
  /\ pc_owner = "run"
  /\ pending = NoHandler
  /\ registered = <<>>
  /\ pc = [t \in Threads |-> "idle"]
  /\ job = [t \in Threads |-> [kind |-> "none", packet |-> <<>>, done |-> 0]]
  /\ resp = [t \in Threads |-> [bytes |-> 0, msg |-> ""]]
  /\ issued = [t \in Threads |-> <<>>]
  /\ result = [t \in Threads |-> [bytes |-> 0, msg |-> ""]]
  /\ started = 0

\* the environments of the specifications: the send side alone and the
\* read side alone with the full input sets, and both sides together with
\* one input of each kind
EnvSend ==
  [packets |-> Packets, kinds |-> ProgramKinds, errs |-> TransportErrs,
   partial |-> TRUE, wireMsgs |-> WireMsgs, recvCounts |-> RecvCounts,
   maxFail |-> 0, maxEvents |-> 0, maxCalls |-> MaxCalls, maxRegs |-> 0]
EnvRead ==
  [packets |-> Packets, kinds |-> ProgramKinds, errs |-> TransportErrs,
   partial |-> TRUE, wireMsgs |-> WireMsgs, recvCounts |-> RecvCounts,
   maxFail |-> MaxFail, maxEvents |-> MaxEvents, maxCalls |-> 0,
   maxRegs |-> MaxRegs]
EnvBoth ==
  [packets |-> {<<8, 9>>}, kinds |-> {"data", "raw"}, errs |-> {"EPIPE"},
   partial |-> FALSE,
   wireMsgs |-> {CHOOSE w \in WireMsgs : w.cmd = kOpen},
   recvCounts |-> {0, CtrlMsgSize},
   maxFail |-> BothFail, maxEvents |-> BothEvents, maxCalls |-> BothCalls,
   maxRegs |-> BothRegs]

Init == InitWith(EnvBoth, FALSE)
InitSend == InitWith(EnvSend, TRUE)
InitRead == InitWith(EnvRead, FALSE)

\* std::terminate() has not been called (an exception left the thread's lambda)
Alive == pc_bg # "terminated"

(* --------------------------- the transport ----------------------------- *)
\* IStreamSocketClient::Reset(): marks the transport for teardown/reconnect;
\* Connected() is false from then on, until the next successful Connect().
TransportReset ==
  /\ connected' = FALSE
  /\ need_reset' = TRUE

\* IStreamSocketClient::GetNativeSocketFd(): the descriptor of the socket the
\* last successful Connect() opened, named by that Connect()'s number
NativeSocketFd == stats.oks

\* IStreamSocketClient::Connect(): fails failPlan times, then succeeds.
ConnectSucceeds == stats.fails >= failPlan

(* ----------------------- vhal_talker_thread_ --------------------------- *)
\* 1 for a step the thread takes after ~Impl has cleared should_continue_
\* (line 304): stats.lateConnects and stats.lateSleeps count those steps
Late == IF should_continue_ THEN 0 ELSE 1

\* mutant: the outer loop does not look at the stop flag
BgLoop_NoStopCheck ==
  /\ Alive /\ pc_bg = "loop"
  /\ pc_bg' = "check_conn"
  /\ UNCHANGED << should_continue_, callback_, transportVars, failPlan, env, fds, received,
                  ctrl_msg, stats, delivered, rx, ownerVars, appVars >>

\* line 247: while (should_continue_)
BgLoop ==
  /\ Alive /\ pc_bg = "loop"
  /\ pc_bg' = IF should_continue_ THEN "check_conn" ELSE "exited"
  /\ UNCHANGED << should_continue_, callback_, transportVars, failPlan, env, fds, received,
                  ctrl_msg, stats, delivered, rx, ownerVars, appVars >>

\* line 248: if (not socket_client_->Connected()); lines 257-266 when connected
BgCheckConnected ==
  /\ Alive /\ pc_bg = "check_conn"
  /\ pc_bg' = IF connected THEN "poll" ELSE "connect"
  /\ fds' = IF connected THEN NativeSocketFd ELSE fds
  /\ UNCHANGED << should_continue_, callback_, transportVars, failPlan, env, received,
                  ctrl_msg, stats, delivered, rx, ownerVars, appVars >>

\* mutant: a failed Connect() is logged but the loop is not restarted
BgConnect_FallThrough ==
  /\ Alive /\ pc_bg = "connect"
  /\ IF ConnectSucceeds
       THEN /\ connected' = TRUE
            /\ stats' = [stats EXCEPT !.connects = @ + 1, !.oks = @ + 1,
                                    !.lateConnects = @ + Late]
       ELSE /\ connected' = connected
            /\ stats' = [stats EXCEPT !.connects = @ + 1, !.fails = @ + 1,
                                    !.lateConnects = @ + Late]
  /\ pc_bg' = "poll"
  /\ fds' = NativeSocketFd'
  /\ UNCHANGED << should_continue_, callback_, need_reset, failPlan, env, received,
                  ctrl_msg, delivered, rx, ownerVars, appVars >>

\* lines 249-256: Connect(); on failure go to the backoff sleep, on success
\* fall through to the read phase (lines 257-266)
BgConnect ==
  /\ Alive /\ pc_bg = "connect"
  /\ IF ConnectSucceeds
       THEN /\ connected' = TRUE
            /\ stats' = [stats EXCEPT !.connects = @ + 1, !.oks = @ + 1,
                                    !.lateConnects = @ + Late]
            /\ pc_bg' = "poll"
       ELSE /\ connected' = connected
            /\ stats' = [stats EXCEPT !.connects = @ + 1, !.fails = @ + 1,
                                    !.lateConnects = @ + Late]
            /\ pc_bg' = "sleep"
  /\ fds' = IF ConnectSucceeds THEN NativeSocketFd' ELSE fds
  /\ UNCHANGED << should_continue_, callback_, need_reset, failPlan, env, received,
                  ctrl_msg, delivered, rx, ownerVars, appVars >>

\* lines 253-254: this_thread::sleep_for(33ms); continue;
BgSleep ==
  /\ Alive /\ pc_bg = "sleep"
  /\ stats' = [stats EXCEPT !.sleeps = @ + 1, !.lateSleeps = @ + Late]
  /\ pc_bg' = "loop"
  /\ UNCHANGED << should_continue_, callback_, transportVars, failPlan, env, fds, received,
                  ctrl_msg, delivered, rx, ownerVars, appVars >>

\* mutant: a poll() error is handled like a lost connection
BgPollError_Recover ==
  /\ Alive /\ pc_bg = "poll"
  /\ TransportReset
  /\ stats' = [stats EXCEPT !.resets = @ + 1]
  /\ pc_bg' = "loop"
  /\ UNCHANGED << should_continue_, callback_, failPlan, env, fds, received, ctrl_msg,
                  delivered, rx, ownerVars, appVars >>

\* lines 269-272: poll() returns -1: system_error leaves the lambda
BgPollError ==
  /\ Alive /\ pc_bg = "poll"
  /\ pc_bg' = "terminated"
  /\ UNCHANGED << should_continue_, callback_, transportVars, failPlan, env, fds, received,
                  ctrl_msg, stats, delivered, rx, ownerVars, appVars >>

\* the counters after one more poll() timeout: lateTimeouts counts (up to 2)
\* the timeouts after the stop flag was cleared, staleTick is the parity of the
\* timeouts spent waiting on a transport that is no longer connected
AfterTimeout(st) ==
  [st EXCEPT !.lateTimeouts = IF ~should_continue_ /\ @ < 2 THEN @ + 1 ELSE @,
             !.staleTick = IF connected THEN @ ELSE 1 - @]

\* mutant: a timeout goes back to the outer loop when the stop flag is cleared
BgPollTimeout_RecheckStop ==
  /\ Alive /\ pc_bg = "poll"
  /\ pc_bg' = IF should_continue_ THEN "poll" ELSE "loop"
  /\ stats' = AfterTimeout(stats)
  /\ UNCHANGED << should_continue_, callback_, transportVars, failPlan, env, fds, received,
                  ctrl_msg, delivered, rx, ownerVars, appVars >>

\* lines 269, 273-275, 297: poll() returns 0: continue, i.e. while (true), poll
\* again
BgPollTimeout ==
  /\ Alive /\ pc_bg = "poll"
  /\ pc_bg' = "poll"
  /\ stats' = AfterTimeout(stats)
  /\ UNCHANGED << should_continue_, callback_, transportVars, failPlan, env, fds, received,
                  ctrl_msg, delivered, rx, ownerVars, appVars >>

\* mutant: revents is not looked at: every positive result is read
BgPollReady_NoReventsCheck ==
  /\ Alive /\ pc_bg = "poll"
  /\ stats.events < env.maxEvents
  /\ \E pollin \in BOOLEAN :
       /\ stats' = [stats EXCEPT !.events = @ + 1,
                                 !.pollins = @ + IF pollin THEN 1 ELSE 0]
       /\ pc_bg' = "recv"
  /\ UNCHANGED << should_continue_, callback_, transportVars, failPlan, env, fds, received,
                  ctrl_msg, delivered, rx, ownerVars, appVars >>

\* lines 269, 276: poll() returns 1; revents may or may not hold POLLIN
\* (POLLHUP / POLLERR / POLLNVAL alone are reported too); stats.pollins counts
\* the results that hold it
BgPollReady ==
  /\ Alive /\ pc_bg = "poll"
  /\ stats.events < env.maxEvents
  /\ \E pollin \in BOOLEAN :
       /\ stats' = [stats EXCEPT !.events = @ + 1,
                                 !.pollins = @ + IF pollin THEN 1 ELSE 0]
       /\ pc_bg' = IF pollin THEN "recv" ELSE "poll"
  /\ UNCHANGED << should_continue_, callback_, transportVars, failPlan, env, fds, received,
                  ctrl_msg, delivered, rx, ownerVars, appVars >>

\* lines 279-284: CtrlMessage ctrl_msg; Recv(&ctrl_msg, sizeof(ctrl_msg))
BgRecv ==
  /\ Alive /\ pc_bg = "recv"
  /\ \E n \in env.recvCounts, m \in env.wireMsgs :
       /\ n <= 0 => m = CHOOSE w \in env.wireMsgs : TRUE
       /\ received' = n
       /\ ctrl_msg' = RecvInto(DefaultCtrlMsg, m, n)
       /\ n <= CtrlMsgSize
       /\ rx' = Append(rx, [len |-> CtrlMsgSize, count |-> n, rec |-> m,
                            epoch |-> stats.resets])
  /\ pc_bg' = "check_recv"
  /\ UNCHANGED << should_continue_, callback_, transportVars, failPlan, env, fds, stats,
                  delivered, ownerVars, appVars >>

\* mutant: only an empty or failed read counts as short
ShortRead_NothingRead(n) == n <= 0

\* line 285: received != sizeof(VideoSink::CtrlMessage)
ShortRead(n) == n # CtrlMsgSize

\* mutant: after Reset() the break is missing and line 295 is reached
BgShortRead_NoBreak ==
  /\ Alive /\ pc_bg = "check_recv"
  /\ ShortRead(received)
  /\ TransportReset
  /\ stats' = [stats EXCEPT !.resets = @ + 1]
  /\ IF callback_ = NoHandler
       THEN /\ pc_bg' = "terminated"
            /\ delivered' = delivered
       ELSE /\ pc_bg' = "in_callback"
            /\ delivered' = Append(delivered,
                 [handler |-> callback_, msg |-> ctrl_msg,
                  nreg |-> Len(registered), raced |-> FALSE,
                  epoch |-> stats.resets])
  /\ UNCHANGED << should_continue_, callback_, failPlan, env, fds, received, ctrl_msg,
                  rx, ownerVars, appVars >>

\* mutant: line 289's continue in place of the break: back to poll()
BgShortRead_Continue ==
  /\ Alive /\ pc_bg = "check_recv"
  /\ ShortRead(received)
  /\ TransportReset
  /\ stats' = [stats EXCEPT !.resets = @ + 1]
  /\ pc_bg' = "poll"
  /\ UNCHANGED << should_continue_, callback_, failPlan, env, fds, received, ctrl_msg,
                  delivered, rx, ownerVars, appVars >>

\* lines 285-291: short read: Reset() and break out of the read loop
BgShortRead ==
  /\ Alive /\ pc_bg = "check_recv"
  /\ ShortRead(received)
  /\ TransportReset
  /\ stats' = [stats EXCEPT !.resets = @ + 1]
  /\ pc_bg' = "loop"
  /\ UNCHANGED << should_continue_, callback_, failPlan, env, fds, received, ctrl_msg,
                  delivered, rx, ownerVars, appVars >>

\* mutant: the handler is started on a thread of its own and the reader goes
\* back to poll() at once
BgDispatch_Detached ==
  /\ Alive /\ pc_bg = "check_recv"
  /\ ~ShortRead(received)
  /\ callback_ # NoHandler
  /\ pc_bg' = "poll"
  /\ delivered' = Append(delivered,
       [handler |-> callback_, msg |-> ctrl_msg, nreg |-> Len(registered),
        raced |-> pc_owner = "registering", epoch |-> stats.resets])
  /\ UNCHANGED << should_continue_, callback_, transportVars, failPlan, env, fds, received,
                  ctrl_msg, stats, rx, ownerVars, appVars >>

\* line 295: callback_(cref(ctrl_msg)).  An empty std::function throws
\* bad_function_call, which leaves the lambda.  While RegisterCallback is
\* assigning callback_ on the owner thread the read races with the write: the
\* call reaches the old target, the new one, or crashes.
BgDispatch ==
  /\ Alive /\ pc_bg = "check_recv"
  /\ ~ShortRead(received)
  /\ \E h \in (IF pc_owner = "registering"
                 THEN {callback_, pending, NoHandler} ELSE {callback_}) :
       IF h = NoHandler
         THEN /\ pc_bg' = "terminated"
              /\ delivered' = delivered
         ELSE /\ pc_bg' = "in_callback"
              /\ delivered' = Append(delivered,
                   [handler |-> h, msg |-> ctrl_msg, nreg |-> Len(registered),
                    raced |-> pc_owner = "registering",
                    epoch |-> stats.resets])
  /\ UNCHANGED << should_continue_, callback_, transportVars, failPlan, env, fds, received,
                  ctrl_msg, stats, rx, ownerVars, appVars >>

\* lines 295-297: the handler returns; while (true) polls again
BgCallbackReturn ==
  /\ Alive /\ pc_bg = "in_callback"
  /\ pc_bg' = "poll"
  /\ UNCHANGED << should_continue_, callback_, transportVars, failPlan, env, fds, received,
                  ctrl_msg, stats, delivered, rx, ownerVars, appVars >>

Background ==
  \/ BgLoop \/ BgCheckConnected \/ BgConnect \/ BgSleep
  \/ BgPollError \/ BgPollTimeout \/ BgPollReady
  \/ BgRecv \/ BgShortRead \/ BgDispatch \/ BgCallbackReturn

(* --------------------------- owner thread ------------------------------ *)
\* line 308: RegisterCallback(callback) is entered; line 310 starts assigning
RegisterBegin ==
  /\ Alive /\ pc_owner = "run"
  /\ Len(registered) < env.maxRegs
  /\ \E h \in Handlers : pending' = h
  /\ pc_owner' = "registering"
  /\ UNCHANGED << should_continue_, callback_, transportVars, failPlan, env, bgVars,
                  registered, appVars >>

\* mutant: a handler is installed only while none is set
RegisterEnd_FirstWins ==
  /\ Alive /\ pc_owner = "registering"
  /\ callback_' = IF callback_ = NoHandler THEN pending ELSE callback_
  /\ registered' = Append(registered, pending)
  /\ pending' = NoHandler
  /\ pc_owner' = "run"
  /\ UNCHANGED << should_continue_, transportVars, failPlan, env, bgVars, appVars >>

\* lines 310-311: callback_ = move(callback); return true;
RegisterEnd ==
  /\ Alive /\ pc_owner = "registering"
  /\ callback_' = pending
  /\ registered' = Append(registered, pending)
  /\ pending' = NoHandler
  /\ pc_owner' = "run"
  /\ UNCHANGED << should_continue_, transportVars, failPlan, env, bgVars, appVars >>

\* no application thread is inside, or about to make, a call on the Sink
Quiescent == \A t \in Threads :
  pc[t] = "idle" /\ job[t].done = Len(ProgramCalls(job[t].kind, job[t].packet))

\* line 304: should_continue_ = false;
DestructorStop ==
  /\ Alive /\ pc_owner = "run"
  /\ Quiescent
  /\ should_continue_' = FALSE
  /\ pc_owner' = "joining"
  /\ UNCHANGED << callback_, transportVars, failPlan, env, bgVars, pending,
                  registered, appVars >>

\* line 305: vhal_talker_thread_.join(); returns once the thread has exited
DestructorJoin ==
  /\ Alive /\ pc_owner = "joining"
  /\ pc_bg = "exited"
  /\ pc_owner' = "destroyed"
  /\ UNCHANGED << should_continue_, callback_, transportVars, failPlan, env, bgVars,
                  pending, registered, appVars >>

Owner == RegisterBegin \/ RegisterEnd \/ DestructorStop \/ DestructorJoin

(* ------------------------ application threads -------------------------- *)
SinkUsable == Alive /\ pc_owner \in {"run", "registering"}

\* the call the thread is making, or is about to make
Calls(t) == ProgramCalls(job[t].kind, job[t].packet)
HasCall(t) == job[t].done < Len(Calls(t))
CurrentCall(t) == Calls(t)[job[t].done + 1]

\* an application thread decides what to send next
AppStart(t) ==
  /\ SinkUsable /\ pc[t] = "idle" /\ ~HasCall(t)
  /\ started < env.maxCalls
  /\ \E k \in env.kinds, p \in env.packets :
       job' = [job EXCEPT ![t] = [kind |-> k, packet |-> p, done |-> 0]]
  /\ issued' = [issued EXCEPT ![t] = <<>>]
  /\ started' = started + 1
  /\ UNCHANGED << should_continue_, callback_, transportVars, failPlan, env, bgVars,
                  ownerVars, pc, resp, result >>

\* socket_client_->Send(buf, len) on thread t, the transport answering r
DoSend(t, buf, len, r) ==
  /\ issued' = [issued EXCEPT ![t] =
       Append(@, [op |-> "Send", data |-> SubSeq(buf, 1, len), len |-> len,
                  res |-> r.bytes])]
  /\ resp' = [resp EXCEPT ![t] = r]

\* socket_client_->Reset() on thread t
DoReset(t) ==
  /\ TransportReset
  /\ issued' = [issued EXCEPT ![t] =
       Append(@, [op |-> "Reset", data |-> <<>>, len |-> 0, res |-> 0])]

\* return response; with the message decorated by prefix (lines 322, 330, 346)
ReturnFailure(t, prefix) ==
  /\ result' = [result EXCEPT ![t] = [bytes |-> resp[t].bytes,
                                       msg |-> prefix \o resp[t].msg]]
  /\ job' = [job EXCEPT ![t].done = @ + 1]
  /\ pc' = [pc EXCEPT ![t] = "idle"]

\* return response; (lines 336, 352)
ReturnSuccess(t) ==
  /\ result' = [result EXCEPT ![t] = resp[t]]
  /\ job' = [job EXCEPT ![t].done = @ + 1]
  /\ pc' = [pc EXCEPT ![t] = "idle"]

\* mutant: the header is written as a 32-bit length
DataSendHeader_Narrow(t) ==
  /\ SinkUsable /\ pc[t] = "idle" /\ HasCall(t)
  /\ CurrentCall(t).op = "SendDataPacket"
  /\ \E r \in SendResults(FieldBytes) :
       DoSend(t, SizeBytes(CurrentCall(t).size, FieldBytes), FieldBytes, r)
  /\ pc' = [pc EXCEPT ![t] = "data_hdr"]
  /\ UNCHANGED << should_continue_, callback_, transportVars, failPlan, env, bgVars,
                  ownerVars, job, result, started >>

\* line 320: response = socket_client_->Send((uint8_t*)&size, sizeof(size));
DataSendHeader(t) ==
  /\ SinkUsable /\ pc[t] = "idle" /\ HasCall(t)
  /\ CurrentCall(t).op = "SendDataPacket"
  /\ \E r \in SendResults(SizeT) :
       DoSend(t, SizeBytes(CurrentCall(t).size, SizeT), SizeT, r)
  /\ pc' = [pc EXCEPT ![t] = "data_hdr"]
  /\ UNCHANGED << should_continue_, callback_, transportVars, failPlan, env, bgVars,
                  ownerVars, job, result, started >>

\* mutant: the failed header write is reported without Reset()
DataHeaderFailed_NoReset(t) ==
  /\ SinkUsable /\ pc[t] = "data_hdr"
  /\ resp[t].bytes = -1
  /\ ReturnFailure(t, "Error in writing payload size to Camera VHal: ")
  /\ UNCHANGED << should_continue_, callback_, transportVars, failPlan, env, bgVars,
                  ownerVars, resp, issued, started >>

\* lines 321-326: the header write failed: decorate, Reset(), return
DataHeaderFailed(t) ==
  /\ SinkUsable /\ pc[t] = "data_hdr"
  /\ resp[t].bytes = -1
  /\ DoReset(t)
  /\ ReturnFailure(t, "Error in writing payload size to Camera VHal: ")
  /\ UNCHANGED << should_continue_, callback_, failPlan, env, bgVars, ownerVars,
                  resp, started >>

\* lines 321, 328: the header write succeeded: Send(packet, size)
DataSendPayload(t) ==
  /\ SinkUsable /\ pc[t] = "data_hdr"
  /\ resp[t].bytes # -1
  /\ \E r \in SendResults(CurrentCall(t).size) :
       DoSend(t, CurrentCall(t).packet, CurrentCall(t).size, r)
  /\ pc' = [pc EXCEPT ![t] = "data_payload"]
  /\ UNCHANGED << should_continue_, callback_, transportVars, failPlan, env, bgVars,
                  ownerVars, job, result, started >>

\* lines 329-334: the payload write failed: decorate, Reset(), return
DataPayloadFailed(t) ==
  /\ SinkUsable /\ pc[t] = "data_payload"
  /\ resp[t].bytes = -1
  /\ DoReset(t)
  /\ ReturnFailure(t, "Error in writing payload to Camera VHal: ")
  /\ UNCHANGED << should_continue_, callback_, failPlan, env, bgVars, ownerVars,
                  resp, started >>

\* lines 329, 336: success
DataReturn(t) ==
  /\ SinkUsable /\ pc[t] = "data_payload"
  /\ resp[t].bytes # -1
  /\ ReturnSuccess(t)
  /\ UNCHANGED << should_continue_, callback_, transportVars, failPlan, env, bgVars,
                  ownerVars, resp, issued, started >>

\* line 344: response = socket_client_->Send(packet, size);
RawSend(t) ==
  /\ SinkUsable /\ pc[t] = "idle" /\ HasCall(t)
  /\ CurrentCall(t).op = "SendRawPacket"
  /\ \E r \in SendResults(CurrentCall(t).size) :
       DoSend(t, CurrentCall(t).packet, CurrentCall(t).size, r)
  /\ pc' = [pc EXCEPT ![t] = "raw_sent"]
  /\ UNCHANGED << should_continue_, callback_, transportVars, failPlan, env, bgVars,
                  ownerVars, job, result, started >>

\* mutant: the failed write is reset and returned without the framer's prefix
RawFailed_NoPrefix(t) ==
  /\ SinkUsable /\ pc[t] = "raw_sent"
  /\ resp[t].bytes = -1
  /\ DoReset(t)
  /\ ReturnFailure(t, "")
  /\ UNCHANGED << should_continue_, callback_, failPlan, env, bgVars, ownerVars,
                  resp, started >>

\* lines 345-350: the write failed: decorate, Reset(), return
RawFailed(t) ==
  /\ SinkUsable /\ pc[t] = "raw_sent"
  /\ resp[t].bytes = -1
  /\ DoReset(t)
  /\ ReturnFailure(t, "Error in writing payload to Camera VHal: ")
  /\ UNCHANGED << should_continue_, callback_, failPlan, env, bgVars, ownerVars,
                  resp, started >>

\* lines 345, 352: success
RawReturn(t) ==
  /\ SinkUsable /\ pc[t] = "raw_sent"
  /\ resp[t].bytes # -1
  /\ ReturnSuccess(t)
  /\ UNCHANGED << should_continue_, callback_, transportVars, failPlan, env, bgVars,
                  ownerVars, resp, issued, started >>

App(t) ==
  \/ AppStart(t)
  \/ DataSendHeader(t) \/ DataHeaderFailed(t) \/ DataSendPayload(t)
  \/ DataPayloadFailed(t) \/ DataReturn(t)
  \/ RawSend(t) \/ RawFailed(t) \/ RawReturn(t)

\* the positions of the read phase (lines 268-297)
ReadPhase == {"poll", "recv", "check_recv", "in_callback"}

(* -------------------------- specification ------------------------------ *)
Next == Background \/ Owner \/ (\E t \in Threads : App(t))

Spec == Init /\ [][Next]_vars

\* the application threads alone, on a transport that answers as it likes
NextSend == \E t \in Threads : App(t)
SpecSend == InitSend /\ [][NextSend]_vars

\* the background thread and the owner thread alone
NextRead == Background \/ Owner
SpecRead == InitRead /\ [][NextRead]_vars

\* Scheduling.  The background thread is a running std::thread (line 244): a
\* step of its own code that is possible is eventually taken.  What poll()
\* returns is the peer's and the kernel's doing: an event or an error may
\* never come, and poll() then returns 0 after timeout_ms (line 261), time
\* after time.
BgProgress ==
  /\ WF_vars(BgLoop) /\ WF_vars(BgCheckConnected) /\ WF_vars(BgConnect)
  /\ WF_vars(BgSleep) /\ WF_vars(BgRecv) /\ WF_vars(BgShortRead)
  /\ WF_vars(BgDispatch) /\ WF_vars(BgCallbackReturn)
  /\ WF_vars(BgPollTimeout)

\* line 305: join() returns once the thread has exited; a RegisterCallback or
\* a send that has been entered runs to its end
OwnerProgress == WF_vars(DestructorJoin) /\ WF_vars(RegisterEnd)

\* the background thread and the owner thread under that scheduling, with
\* every connection plan and one input of each kind on the read side
EnvStop == [EnvBoth EXCEPT !.maxFail = MaxFail, !.maxCalls = 0]
InitStop == InitWith(EnvStop, FALSE)
SpecReadFair == InitStop /\ [][NextRead]_vars /\ BgProgress /\ OwnerProgress

\* a send that has been entered runs to its return (lines 314-353 hold no
\* wait); when the application calls is its own choice
AppRun(t) ==
  \/ DataSendHeader(t) \/ DataHeaderFailed(t) \/ DataSendPayload(t)
  \/ DataPayloadFailed(t) \/ DataReturn(t)
  \/ RawSend(t) \/ RawFailed(t) \/ RawReturn(t)
AppProgress == \A t \in Threads : WF_vars(AppRun(t))

SpecFair == Spec /\ BgProgress /\ OwnerProgress /\ AppProgress

(* ======================================================================= *)
(* Properties                                                              *)
(* ======================================================================= *)
\* the value a little-endian byte string encodes
RECURSIVE LittleEndianValue(_)
LittleEndianValue(bytes) ==
  IF bytes = <<>> THEN 0 ELSE Head(bytes) + 256 * LittleEndianValue(Tail(bytes))

\* thread t has run a program of this kind to its end
Finished(t, kind) ==
  job[t].kind = kind /\ job[t].done = Len(Calls(t)) /\ pc[t] = "idle"

IsSend(e, bytes) == e.op = "Send" /\ e.data = bytes /\ e.len = Len(bytes)
IsHeaderSend(e, n) ==
  e.op = "Send" /\ e.len = SizeT /\ Len(e.data) = SizeT /\ LittleEndianValue(e.data) = n

\* C1: a SendDataPacket(p, n) call both of whose writes succeed has issued
\* exactly two transport Sends and nothing else: first the SizeT-byte header
\* holding n, then the n bytes of p.
C1_TwoOrderedWrites ==
  \A t \in Threads :
    (Finished(t, "data") /\ result[t].bytes # -1) =>
      /\ Len(issued[t]) = 2
      /\ IsHeaderSend(issued[t][1], Len(job[t].packet))
      /\ issued[t][1].res # -1
      /\ IsSend(issued[t][2], job[t].packet)
      /\ issued[t][2].res # -1

\* C1 witness: a SendDataPacket of a two-byte packet has returned 2 while the
\* transport is connected.
C1_Witness ==
  \E t \in Threads :
    /\ Finished(t, "data") /\ result[t].bytes = 2 /\ Len(job[t].packet) = 2
    /\ connected

\* C2 (as claimed): once the destructor has cleared the stop flag, the
\* background thread sits through at most one poll timeout before it exits.
C2_ExitsWithinOneTimeout == ~should_continue_ => stats.lateTimeouts <= 1

\* C3: with Connect() failing failPlan times and then succeeding, the read
\* phase is entered only after a successful Connect(); until the first
\* success every attempt has failed, the first success is attempt number
\* failPlan + 1, and every failed attempt is followed by one backoff sleep
\* before the next attempt.
C3_ConnectAttempts ==
  /\ pc_bg \in ReadPhase => (stats.oks >= 1 /\ stats.connects >= failPlan + 1)
  /\ stats.oks = 0 => (stats.connects = stats.fails /\ stats.fails <= failPlan)
  /\ stats.oks = 1 => stats.connects = failPlan + 1
  /\ stats.sleeps = IF pc_bg = "sleep" THEN stats.fails - 1 ELSE stats.fails

\* C3 witness: Connect() failed twice, the third attempt succeeded and the
\* thread is about to Recv.
C3_Witness ==
  /\ failPlan = 2 /\ stats.connects = 3 /\ stats.sleeps = 2
  /\ pc_bg = "recv"

\* C4: the step the reader takes after a Recv() whose count differs from the
\* control-record size is Reset() on the transport, and it invokes no
\* callback: the thread is back at the top of the outer loop.
C4_ShortReadResets ==
  [][ (pc_bg = "check_recv" /\ received # CtrlMsgSize /\ pc_bg' # pc_bg) =>
        /\ stats'.resets = stats.resets + 1
        /\ need_reset' /\ ~connected'
        /\ delivered' = delivered
        /\ pc_bg' = "loop" ]_vars

\* C4 witness: with a handler registered, a read one byte short of a record
\* was answered by Reset() and no callback.
C4_Witness ==
  /\ callback_ # NoHandler /\ received = CtrlMsgSize - 1
  /\ pc_bg = "loop" /\ stats.resets = 1 /\ ~connected /\ delivered = <<>>

\* the Recv() results the reader has acted on, and the full ones among them
RxDone == IF pc_bg = "check_recv" THEN SubSeq(rx, 1, Len(rx) - 1) ELSE rx
IsFull(e) == e.count = CtrlMsgSize
IsShort(e) == e.count # CtrlMsgSize

\* C5: the callback invocations are, one for one and in order, the full
\* records received, each passed with the fields the peer sent; a full record
\* is never answered by Reset() (there are as many resets as short reads).
\* The last full record is without its invocation only if the process
\* terminated because no handler was set or one was being assigned.
C5_FullRecordDispatched ==
  LET fulls == SelectSeq(RxDone, IsFull) IN
  /\ Len(delivered) <= Len(fulls)
  /\ \A i \in 1..Len(delivered) :
       /\ delivered[i].msg = fulls[i].rec
       /\ delivered[i].handler \in Handlers
  /\ Len(delivered) < Len(fulls) =>
       /\ Len(delivered) = Len(fulls) - 1
       /\ pc_bg = "terminated"
       /\ callback_ = NoHandler \/ pc_owner = "registering"
  /\ stats.resets = Len(SelectSeq(RxDone, IsShort))

\* C5 witness: two full records were received, the first being {decode in
\* VHAL, Open, H264, 720p}; both reached the handler and nothing was reset.
C5_Witness ==
  /\ Len(delivered) = 2 /\ stats.resets = 0 /\ connected
  /\ delivered[1].msg = [version |-> kV2, cmd |-> kOpen, codec_type |-> kH264,
                         resolution |-> k720p]
  /\ delivered[2].msg.cmd = kClose

C7_ConnectedWhileReading == pc_bg \in {"poll", "recv"} => connected

\* C8: after RegisterCallback(h1) and then RegisterCallback(h2), both
\* finished before the first dispatch, every dispatch made while these are
\* the only two registrations invokes h2.
C8_SecondHandlerOnly ==
  ( /\ Len(registered) >= 2
    /\ registered[1] = "h1" /\ registered[2] = "h2"
    /\ \A j \in 1..Len(delivered) : delivered[j].nreg >= 2 ) =>
  \A i \in 1..Len(delivered) :
    (delivered[i].nreg = 2 /\ ~delivered[i].raced) => delivered[i].handler = "h2"

\* C8 witness: h1 then h2 were registered and two records dispatched after.
C8_Witness ==
  /\ registered = <<"h1", "h2">>
  /\ Len(delivered) = 2 /\ delivered[1].nreg = 2 /\ delivered[2].handler = "h2"


\* the transport calls of a log without their results; two logs whose first
\* writes, and second writes where both made one, got the same result
Ops(log) == [i \in DOMAIN log |-> [op |-> log[i].op, data |-> log[i].data]]
SameOutcomes(a, b) ==
  /\ a[1].res = b[1].res
  /\ (Len(a) >= 2 /\ Len(b) >= 2 /\ a[2].op = "Send" /\ b[2].op = "Send")
       => a[2].res = b[2].res

\* C9 (as claimed): a SendDataPacket(p, n) call and the pair of calls
\* SendRawPacket(&n, sizeof n); SendRawPacket(p, n) that met the same write
\* outcomes have made the same transport calls and returned the same count.
C9_DataEqualsTwoRaw ==
  \A t, u \in Threads :
    ( /\ Finished(t, "data") /\ Finished(u, "pair")
      /\ job[t].packet = job[u].packet
      /\ SameOutcomes(issued[t], issued[u]) ) =>
      /\ Ops(issued[t]) = Ops(issued[u])
      /\ result[t].bytes = result[u].bytes

\* C10: a finished SendRawPacket(p, n) has sent p once; if the transport
\* answered -1 it has then called Reset() once and returned -1 with the
\* transport's message behind the framer's prefix, otherwise it has called
\* nothing else and returned the transport's answer as it was.
C10_SendRawPacket ==
  \A t \in Threads :
    Finished(t, "raw") =>
      /\ IsSend(issued[t][1], job[t].packet)
      /\ issued[t][1].res = resp[t].bytes
      /\ IF resp[t].bytes = -1
           THEN /\ Len(issued[t]) = 2 /\ issued[t][2].op = "Reset"
                /\ need_reset /\ ~connected
                /\ result[t].bytes = -1
                /\ result[t].msg =
                     "Error in writing payload to Camera VHal: " \o resp[t].msg
           ELSE /\ Len(issued[t]) = 1
                /\ result[t] = resp[t]

\* C10 witness: one SendRawPacket has failed with the transport's EPIPE while
\* another has returned a partial write and the transport is still connected
\* before it.
C10_Witness ==
  \E t, u \in Threads :
    /\ Finished(t, "raw") /\ resp[t] = [bytes |-> -1, msg |-> "EPIPE"]
    /\ Finished(u, "raw") /\ result[u].bytes = Len(job[u].packet) - 1

\* C11: poll() returning -1 ends the process.  The only steps out of the
\* readiness wait are a timeout (wait again), an event (wait again or Recv) and
\* the error, which leads to termination and to nothing else: that step calls
\* no Reset() (the transport is as it was), invokes no callback, and does not
\* return to the outer loop; once the error has left the thread no thread of
\* the process takes another step.
C11_PollErrorFatal ==
  [][ /\ pc_bg = "poll" => pc_bg' \in {"poll", "recv", "terminated"}
      /\ (pc_bg = "poll" /\ pc_bg' = "terminated") =>
            /\ UNCHANGED << connected, need_reset, stats, delivered, rx, callback_ >>
            /\ UNCHANGED << should_continue_, ownerVars >>
      /\ pc_bg # "terminated" ]_vars

\* C11 witness: the thread has terminated out of a wait on a connected
\* transport, with a callback registered and one record already handled; no
\* Reset() has been called.
C11_Witness ==
  /\ pc_bg = "terminated" /\ pc_owner = "run" /\ callback_ # NoHandler
  /\ connected /\ ~need_reset /\ stats.resets = 0
  /\ Len(delivered) = 1 /\ Len(rx) = 1

\* the thread is in the connection phase of the outer loop and the transport
\* is not connected
ConnectPhase == {"loop", "check_conn", "connect", "sleep"}
CannotConnect ==
  /\ pc_bg \in ConnectPhase /\ ~connected
  /\ pc_bg \in {"check_conn", "connect"} => stats.fails < failPlan

\* C12: once ~Impl has cleared should_continue_ the thread calls Connect() at
\* most once more and sleeps at most once more; and if the flag is cleared
\* while the thread is in the connection phase and the Connect() it may still
\* make fails, the thread exits and ~Impl's join() returns.
C12_StopWhileConnecting ==
  /\ [](~should_continue_ => stats.lateConnects <= 1 /\ stats.lateSleeps <= 1)
  /\ (~should_continue_ /\ CannotConnect) ~> (pc_bg = "exited" /\ pc_owner = "destroyed")

\* C12 witness: the Sink was destroyed while every Connect() failed: the
\* thread made one Connect() attempt and one sleep after the flag was cleared,
\* never connected, and has been joined.
C12_Witness ==
  /\ pc_owner = "destroyed" /\ pc_bg = "exited"
  /\ stats.oks = 0 /\ stats.fails = stats.connects /\ stats.connects >= 1
  /\ stats.lateConnects = 1 /\ stats.lateSleeps = 1

\* the thread's last Recv() was short and it is back in the outer loop:
\* Reset() is the last thing it did to the transport
AfterShortRead ==
  /\ rx # <<>> /\ ShortRead(rx[Len(rx)].count)
  /\ stats.resets >= 1 /\ pc_bg \in {"loop", "check_conn"}

\* C13: the step that handles a short read calls Reset() and leaves the thread
\* at the stop-flag check; from there its next step is the Connected() check
\* (or the exit, when the flag is cleared), and the step after that is
\* Connect() when the transport is not connected.  No poll() and no Recv()
\* is made on the way: the read log and the event count stay as they were.
C13_ShortReadToSupervisor ==
  [][ /\ (pc_bg = "check_recv" /\ ShortRead(received) /\ pc_bg' # pc_bg) =>
            pc_bg' = "loop" /\ ~connected' /\ stats'.resets = stats.resets + 1
      /\ (AfterShortRead /\ pc_bg = "loop" /\ pc_bg' # pc_bg) =>
            /\ pc_bg' = IF should_continue_ THEN "check_conn" ELSE "exited"
            /\ UNCHANGED << rx, stats, transportVars >>
      /\ (AfterShortRead /\ pc_bg = "check_conn" /\ pc_bg' # pc_bg) =>
            /\ pc_bg' = IF connected THEN "poll" ELSE "connect"
            /\ UNCHANGED << rx, stats, transportVars >>
      /\ (AfterShortRead' /\ ~AfterShortRead) =>
            pc_bg \in {"check_recv", "sleep"} /\ pc_bg' = "loop" ]_vars

\* C13 witness: after a short read the thread has passed the stop-flag check
\* and the Connected() check and is about to call Connect() again.
C13_Witness ==
  /\ rx # <<>> /\ ShortRead(rx[Len(rx)].count)
  /\ pc_bg = "connect" /\ should_continue_ /\ ~connected /\ need_reset
  /\ stats.resets = 1 /\ stats.oks = 1 /\ stats.connects = stats.oks + stats.fails

\* a send on an application thread has failed and called Reset(), and the
\* transport is still marked, while the background thread is in its read loop
SendFailedWhileReading ==
  /\ \E t \in Threads :
       /\ Len(issued[t]) >= 2
       /\ issued[t][Len(issued[t])].op = "Reset"
       /\ issued[t][Len(issued[t]) - 1].res = -1
  /\ need_reset /\ ~connected
  /\ pc_bg \in ReadPhase

\* C14: after a send has failed and marked the transport while the background
\* thread is in the read phase, the thread eventually leaves the read loop,
\* unless the Sink is destroyed first.  (The claim has the thread return to
\* the connection phase; leaving the loop in any way is the least that takes.)
C14_LeavesReadLoopAfterSendFailure ==
  SendFailedWhileReading ~> (pc_bg \notin ReadPhase \/ ~should_continue_)

\* thread t is inside SendDataPacket, the header is written (line 320) and the
\* payload write (line 328) is still to come
BetweenHeaderAndPayload(t) == pc[t] = "data_hdr" /\ resp[t].bytes # -1

\* C15: while a SendDataPacket call is between its header write and its
\* payload write no other operation reaches the transport: no step appends a
\* Send or a Reset() to another application thread's calls, and the
\* background thread calls no Reset().
C15_FrameNotInterleaved ==
  [][ \A t \in Threads :
        BetweenHeaderAndPayload(t) =>
          /\ \A u \in Threads \ {t} : issued'[u] = issued[u]
          /\ stats'.resets = stats.resets ]_vars

\* C16: whenever the thread acts on a full record (line 295) a handler has
\* been registered, and the step enters that handler: it never calls the
\* empty callback_ the Sink is constructed with.
C16_NeverDispatchesToUnsetHandler ==
  [][ (pc_bg = "check_recv" /\ ~ShortRead(received) /\ pc_bg' # pc_bg) =>
        /\ callback_ # NoHandler
        /\ pc_bg' = "in_callback"
        /\ Len(delivered') = Len(delivered) + 1
        /\ delivered'[Len(delivered')].handler # NoHandler ]_vars

\* the Recv() calls made or due: one is due while the thread stands before
\* line 281
RecvsMadeOrDue == Len(rx) + IF pc_bg = "recv" THEN 1 ELSE 0

\* C17 as stated: every positive poll() result is followed by exactly one
\* Recv() before the next wait.
C17_OneRecvPerEvent == stats.events = RecvsMadeOrDue

\* C17 amended: every positive poll() result whose revents holds POLLIN is
\* followed by exactly one Recv() of sizeof(CtrlMessage) bytes before the
\* next wait, and a positive result without POLLIN by none.
C17_OneRecvPerReadableEvent ==
  /\ stats.pollins = RecvsMadeOrDue
  /\ stats.pollins <= stats.events
  /\ \A i \in 1..Len(rx) : rx[i].len = CtrlMsgSize /\ rx[i].count <= rx[i].len

\* C17 witness: two positive results, one with POLLIN and one without; one
\* Recv() has been made and the thread waits again.
C17_Witness ==
  /\ stats.events = 2 /\ stats.pollins = 1
  /\ Len(rx) = 1 /\ pc_bg = "poll"

\* the full records received, and the records passed to a handler, after the
\* thread's e-th Reset() and before its next
FullsIn(e) == SelectSeq(rx, LAMBDA r : r.count = CtrlMsgSize /\ r.epoch = e)
PassedIn(e) == SelectSeq(delivered, LAMBDA d : d.epoch = e)

\* C18: a record is passed to the handler by a step that enters the handler;
\* while the thread is in the handler it polls nothing, reads nothing and
\* enters no second handler, and it polls again when the handler returns.
\* Between two resets the records passed to the handler are the full records
\* received, in the order received: all of them whenever the thread is not
\* standing between a Recv() and its dispatch, and all but the last when it
\* is (or when the process ended there).
C18_SynchronousInOrder ==
  /\ [][ /\ delivered' # delivered =>
              pc_bg = "check_recv" /\ pc_bg' = "in_callback"
         /\ pc_bg = "in_callback" =>
              /\ UNCHANGED << rx, delivered, received, ctrl_msg >>
              /\ stats'.events = stats.events
              /\ pc_bg' \in {"in_callback", "poll"} ]_vars
  /\ [](\A e \in 0..stats.resets :
          /\ Len(PassedIn(e)) <= Len(FullsIn(e))
          /\ Len(FullsIn(e)) <= Len(PassedIn(e)) + 1
          /\ \A i \in 1..Len(PassedIn(e)) : PassedIn(e)[i].msg = FullsIn(e)[i].rec
          /\ pc_bg \notin {"check_recv", "terminated"} =>
                Len(PassedIn(e)) = Len(FullsIn(e)))

\* C18 witness: two different records were received in full on one
\* connection; the first handler call has returned and the thread is inside
\* the second.
C18_Witness ==
  /\ pc_bg = "in_callback" /\ stats.resets = 0
  /\ Len(rx) = 2 /\ rx[1].rec # rx[2].rec
  /\ Len(delivered) = 2
  /\ delivered[1].msg = rx[1].rec /\ delivered[2].msg = rx[2].rec

\* C19: a poll() that returns 0 does nothing.  A timeout before the stop flag
\* is cleared changes no variable at all; one after it is counted in
\* stats.lateTimeouts, and that step is made at poll() and ends at poll()
\* although should_continue_ is false, leaves every other counter of
\* Connect(), Recv() and Reset() calls, the read log, the handler log, the
\* transport, callback_ and the descriptor in fds as they were.
C19_TimeoutIsNoOp ==
  [][ stats'.lateTimeouts # stats.lateTimeouts =>
        /\ pc_bg = "poll" /\ pc_bg' = "poll"
        /\ ~should_continue_ /\ ~should_continue_'
        /\ stats'.lateTimeouts = stats.lateTimeouts + 1
        /\ \A f \in DOMAIN stats \ {"lateTimeouts", "staleTick"} :
             stats'[f] = stats[f]
        /\ UNCHANGED << rx, delivered, received, ctrl_msg, fds >>
        /\ UNCHANGED << connected, need_reset, callback_, registered >> ]_vars

\* C19 witness: two timeouts have passed since the stop flag was cleared and
\* the thread still waits on the descriptor of its first connection, with the
\* transport connected and the handler registered as before.
C19_Witness ==
  /\ pc_bg = "poll" /\ ~should_continue_ /\ stats.lateTimeouts = 2
  /\ connected /\ ~need_reset /\ callback_ # NoHandler
  /\ fds = 1 /\ NativeSocketFd = 1 /\ rx = <<>>

====
